---- MODULE Spec2Model ----
(***************************************************************************)
(* Model of the Service Bus consumer of azure-cloud-booking-service:        *)
(* ServiceBusReceiverService (src/app/services/servicebus.py), its          *)
(* start()/stop() lifecycle and the _receive_messages background task.      *)
(*                                                                          *)
(* The host calls start() and stop() one after the other (never            *)
(* overlapping).  start() contains no await and runs in one step; stop()    *)
(* suspends at wait_for, at the join of the cancelled task and at           *)
(* client.close().  The loop task moves from one await to the next; its     *)
(* position lpc names the await it is suspended at.                         *)
(*                                                                          *)
(* Beside the consumer the module models its host, the application         *)
(* lifespan (src/app/main.py), the health endpoint                          *)
(* (src/app/api/v1/health.py), the relational model (src/models) and        *)
(* DatabaseManager.session_scope (src/service/database.py).                 *)
(***************************************************************************)
EXTENDS Integers, Sequences, FiniteSets, TLC

\* ---- bounds of the model ------------------------------------------------
MaxMsgs == 2        \* messages ever put on the queue
MaxOpens == 3       \* receive sessions ever opened
MaxStarts == 2      \* start() calls ever made
MaxUsers == 2       \* user ids in use at one time
MaxPets == 2        \* pet ids in use at one time
MaxBookings == 2    \* booking ids in use at one time
MaxWrites == 4      \* writes made through sessions
MaxBodyCommits == 1 \* commits the body of one with block makes itself
MaxTime == 1        \* readings of the clock a health response can carry

None == 0

\* no database operation has been made yet
NoOp == [op |-> "none", id |-> 0, result |-> "ok"]

\* no HealthResponse has been returned yet
NoResponse == [status |-> "none", service |-> "", version |-> "", timestamp |-> 0]

VARIABLES
  running,      \* self._running
  client,       \* self.client: None or the id of a ServiceBusClient
  receiver,     \* self.receiver (never assigned after __init__)
  task,         \* self._task: None or the id of the launched task
  lpc,          \* position of the loop task
  cancelReq,    \* a cancellation has been requested on the loop task
  exitKind,     \* how the loop task ended
  cause,        \* why the session is being left / why the loop backs off
  cur,          \* the message being handled / acknowledged
  queue,        \* broker: messages not yet completed, in delivery order
  nextId,       \* broker: id of the next message to arrive
  hostPc,       \* position of the host inside stop()
  last,         \* outcome of the last start()/stop() call
  timedOut,     \* the grace period of this stop() elapsed
  forced,       \* this stop() cancelled the task
  entryClient,  \* self.client when this stop() was called
  closeCalls,   \* client.close() calls made by this stop()
  clientOpen,   \* set of client ids that were opened and not closed
  starts,       \* number of start() calls
  launched,     \* number of create_task calls
  connects,     \* number of from_connection_string calls
  opens,        \* number of get_queue_receiver calls
  delivered,    \* messages yielded by the current session, in order
  invoked,      \* messages passed to _process_message in the session
  returned,     \* messages whose _process_message returned in the session
  ackCalls,     \* messages passed to complete_message in the session
  failedMsg,    \* message whose handler raised in the session (or None)
  sessStopped,  \* running became false since the session was opened
  viaBackoff,   \* the session being opened follows a backoff sleep
  phase,        \* lifespan: position of the application lifespan
  lsStarts,     \* lifespan: start() calls made by this lifespan
  lsStops,      \* lifespan: stop() calls made by this lifespan
  lsLogged,     \* lifespan: the errors this lifespan logged
  resp,         \* the last HealthResponse returned (or NoResponse)
  respIn,       \* the condition of the consumer when it was returned
  users,        \* table users: the user_id values
  pets,         \* table pets: rows [pet_id, user_id]
  bookings,     \* table bookings: rows [booking_id, user_id, pet_id]
  dbLast,       \* outcome of the last database operation
  scopePc,      \* session_scope: position of the context manager
  scopeLog,     \* session_scope: calls made on the session in this use
  scopeExc,     \* session_scope: the exception in flight
  scopeOut,     \* session_scope: what the caller of the with block got
  dirty,        \* session: writes of the open transaction
  durable       \* database: writes committed

svc == <<running, client, receiver, task>>
loop == <<lpc, cancelReq, exitKind, cause, cur>>
broker == <<queue, nextId>>
call == <<timedOut, forced, entryClient, closeCalls>>
host == <<hostPc, last, call, starts>>
counts == <<clientOpen, launched, connects, opens>>
sess == <<delivered, invoked, returned, ackCalls, failedMsg, sessStopped,
         viaBackoff>>
life == <<phase, lsStarts, lsStops, lsLogged>>
web == <<resp, respIn>>
db == <<users, pets, bookings, dbLast>>
scope == <<scopePc, scopeLog, scopeExc, scopeOut, dirty, durable>>
other == <<web, db, scope>>
rest == <<life, other>>
vars == <<svc, loop, broker, host, counts, sess, rest>>

Awaits == {"open", "next", "handler", "ack", "aexit", "sleep"}
LoopPcs == {"none", "ready", "done"} \cup Awaits

\* ---- ServiceBusReceiverService.__init__ ---------------------------------
\* lines 21-24 as a plausible slip: the flag starts set
ConstructedMut ==
  /\ running = TRUE
  /\ client = None
  /\ receiver = None
  /\ task = None

\* lines 21-24: the fields of a new consumer
Constructed ==
  /\ running = FALSE
  /\ client = None
  /\ receiver = None
  /\ task = None

Init ==
  /\ Constructed
  /\ lpc = "none"
  /\ cancelReq = FALSE
  /\ exitKind = "none"
  /\ cause = "none"
  /\ cur = None
  /\ queue = <<>>
  /\ nextId = 1
  /\ hostPc = "idle"
  /\ last = "init"
  /\ timedOut = FALSE
  /\ forced = FALSE
  /\ entryClient = None
  /\ closeCalls = 0
  /\ clientOpen = {}
  /\ starts = 0
  /\ launched = 0
  /\ connects = 0
  /\ opens = 0
  /\ delivered = <<>>
  /\ invoked = <<>>
  /\ returned = <<>>
  /\ ackCalls = <<>>
  /\ failedMsg = None
  /\ sessStopped = FALSE
  /\ viaBackoff = FALSE
  /\ phase = "off"
  /\ lsStarts = 0
  /\ lsStops = 0
  /\ lsLogged = {}
  /\ resp = NoResponse
  /\ respIn = "none"
  /\ users = {}
  /\ pets = {}
  /\ bookings = {}
  /\ dbLast = NoOp
  /\ scopePc = "idle"
  /\ scopeLog = <<>>
  /\ scopeExc = "none"
  /\ scopeOut = "none"
  /\ dirty = 0
  /\ durable = 0

\* ---- the broker: a message arrives on the queue -------------------------
Enqueue ==
  /\ nextId <= MaxMsgs
  /\ queue' = Append(queue, nextId)
  /\ nextId' = nextId + 1
  /\ UNCHANGED <<svc, loop, host, counts, sess,
                 rest>>

\* ---- ServiceBusReceiverService.start ------------------------------------
\* line 28: the guard of start()
AlreadyRunningMut == FALSE
AlreadyRunning == running

\* lines 28-30: start() on a running consumer warns and returns
StartNoop ==
  /\ hostPc = "idle"
  /\ starts < MaxStarts
  /\ AlreadyRunning
  /\ starts' = starts + 1
  /\ last' = "start_noop"
  /\ UNCHANGED <<svc, loop, broker, hostPc, call, counts, sess,
                 other>>

\* lines 32-36: from_connection_string raises; _running was already set
StartRaises ==
  /\ hostPc = "idle"
  /\ starts < MaxStarts
  /\ ~AlreadyRunning
  /\ starts' = starts + 1
  /\ running' = TRUE
  /\ connects' = connects + 1
  /\ last' = "start_raised"
  /\ UNCHANGED <<client, receiver, task, loop, broker, hostPc, call,
                 clientOpen, launched, opens, sess,
                 other>>

\* line 38 as a plausible slip: the task is created but not recorded
StartOKMut ==
  /\ hostPc = "idle"
  /\ starts < MaxStarts
  /\ ~AlreadyRunning
  /\ starts' = starts + 1
  /\ running' = TRUE
  /\ connects' = connects + 1
  /\ client' = connects + 1
  /\ clientOpen' = clientOpen \cup {connects + 1}
  /\ launched' = launched + 1
  /\ task' = task
  /\ lpc' = "ready"
  /\ cancelReq' = FALSE
  /\ exitKind' = "none"
  /\ last' = "start_ok"
  /\ cause' = "none"
  /\ cur' = None
  /\ delivered' = <<>>
  /\ invoked' = <<>>
  /\ returned' = <<>>
  /\ ackCalls' = <<>>
  /\ failedMsg' = None
  /\ sessStopped' = FALSE
  /\ viaBackoff' = FALSE
  /\ UNCHANGED <<receiver, broker, hostPc, call, opens,
                 other>>

\* lines 32-39: the whole of a successful start()
StartOK ==
  /\ hostPc = "idle"
  /\ starts < MaxStarts
  /\ ~AlreadyRunning
  /\ starts' = starts + 1
  /\ running' = TRUE
  /\ connects' = connects + 1
  /\ client' = connects + 1
  /\ clientOpen' = clientOpen \cup {connects + 1}
  /\ launched' = launched + 1
  /\ task' = launched + 1
  /\ lpc' = "ready"
  /\ cancelReq' = FALSE
  /\ exitKind' = "none"
  /\ last' = "start_ok"
  /\ cause' = "none"
  /\ cur' = None
  /\ delivered' = <<>>
  /\ invoked' = <<>>
  /\ returned' = <<>>
  /\ ackCalls' = <<>>
  /\ failedMsg' = None
  /\ sessStopped' = FALSE
  /\ viaBackoff' = FALSE
  /\ UNCHANGED <<receiver, broker, hostPc, call, opens,
                 other>>

\* ---- ServiceBusReceiverService.stop -------------------------------------
\* line 46 as a plausible slip: the test of done() is inverted
TaskPendingMut == task # None /\ lpc = "done"

\* line 46: self._task and not self._task.done()
TaskPending == task # None /\ lpc # "done"

\* line 44 as a plausible slip: the flag is left as it was
StopBeginMut ==
  /\ hostPc = "idle"
  /\ running' = running
  /\ sessStopped' = sessStopped
  /\ viaBackoff' = viaBackoff
  /\ timedOut' = FALSE
  /\ forced' = FALSE
  /\ entryClient' = client
  /\ closeCalls' = 0
  /\ last' = "stopping"
  /\ hostPc' = IF TaskPending THEN "wait_for" ELSE "close"
  /\ UNCHANGED <<client, receiver, task, loop, broker, starts, counts,
                 delivered, invoked, returned, ackCalls, failedMsg,
                 other>>

\* lines 43-46: stop() clears the flag and, if the task is pending, waits
StopBegin ==
  /\ hostPc = "idle"
  /\ running' = FALSE
  /\ sessStopped' = TRUE
  /\ viaBackoff' = viaBackoff
  /\ timedOut' = FALSE
  /\ forced' = FALSE
  /\ entryClient' = client
  /\ closeCalls' = 0
  /\ last' = "stopping"
  /\ hostPc' = IF TaskPending THEN "wait_for" ELSE "close"
  /\ UNCHANGED <<client, receiver, task, loop, broker, starts, counts,
                 delivered, invoked, returned, ackCalls, failedMsg,
                 other>>

\* line 48 as a plausible slip: the handle is cleared once the task is joined
StopWaitReturnsMut ==
  /\ hostPc = "wait_for"
  /\ lpc = "done"
  /\ task' = None
  /\ hostPc' = "close"
  /\ UNCHANGED <<running, client, receiver, loop, broker, last, call, starts,
                 counts, sess, rest>>

\* line 48: the task finishes within the grace period, wait_for returns
StopWaitReturns ==
  /\ hostPc = "wait_for"
  /\ lpc = "done"
  /\ hostPc' = "close"
  /\ UNCHANGED <<svc, loop, broker, last, call, starts, counts, sess,
                 rest>>

\* lines 49-51 as a plausible slip: the timeout is logged, the task not cancelled
StopTimeoutMut ==
  /\ hostPc = "wait_for"
  /\ lpc \in Awaits
  /\ timedOut' = TRUE
  /\ hostPc' = "join"
  /\ UNCHANGED <<svc, loop, broker, last, forced, entryClient, closeCalls,
                 starts, counts, sess,
                 rest>>

\* lines 48-51: the grace period elapses with the task still pending and the
\* task is cancelled (by wait_for itself and by self._task.cancel()).  The
\* task has run its first step by then, so it is suspended at an await.
StopTimeout ==
  /\ hostPc = "wait_for"
  /\ lpc \in Awaits
  /\ timedOut' = TRUE
  /\ forced' = TRUE
  /\ cancelReq' = TRUE
  /\ hostPc' = "join"
  /\ UNCHANGED <<svc, lpc, exitKind, cause, cur, broker, last, entryClient,
                 closeCalls, starts, counts, sess,
                 rest>>

\* line 52: contextlib.suppress(asyncio.CancelledError)
SuppressesCancelled == TRUE

\* lines 52-53: the cancelled task is joined; if it ended as cancelled the
\* await raises CancelledError, which is suppressed
StopJoined ==
  /\ hostPc = "join"
  /\ lpc = "done"
  /\ IF exitKind = "cancelled" /\ ~SuppressesCancelled
       THEN hostPc' = "idle" /\ last' = "stop_cancelled"
       ELSE hostPc' = "close" /\ last' = last
  /\ UNCHANGED <<svc, loop, broker, call, starts, counts, sess,
                 rest>>

\* line 55 as a plausible slip: close() is called without testing the
\* handle, and the call on None raises
StopNoClientMut ==
  /\ hostPc = "close"
  /\ client = None
  /\ closeCalls' = closeCalls + 1
  /\ hostPc' = "idle"
  /\ last' = "stop_raised"
  /\ UNCHANGED <<svc, loop, broker, timedOut, forced, entryClient, starts,
                 counts, sess, rest>>

\* lines 55, 59: no client, stop() logs and returns
StopNoClient ==
  /\ hostPc = "close"
  /\ client = None
  /\ hostPc' = "idle"
  /\ last' = "stop_ok"
  /\ UNCHANGED <<svc, loop, broker, call, starts, counts, sess,
                 rest>>

\* lines 55-56: client.close() is called and awaited
StopCloseCalled ==
  /\ hostPc = "close"
  /\ client # None
  /\ closeCalls' = closeCalls + 1
  /\ hostPc' = "closing"
  /\ UNCHANGED <<svc, loop, broker, last, timedOut, forced, entryClient, starts,
                 counts, sess,
                 rest>>

\* line 57 as a plausible slip: the handle is kept after the close
StopCloseDoneMut ==
  /\ hostPc = "closing"
  /\ clientOpen' = clientOpen \ {client}
  /\ hostPc' = "idle"
  /\ last' = "stop_ok"
  /\ UNCHANGED <<svc, loop, broker, call, starts,
                 launched, connects, opens, sess,
                 rest>>

\* lines 56-59: close() returns, the handle is cleared, stop() returns
StopCloseDone ==
  /\ hostPc = "closing"
  /\ clientOpen' = clientOpen \ {client}
  /\ client' = None
  /\ hostPc' = "idle"
  /\ last' = "stop_ok"
  /\ UNCHANGED <<running, receiver, task, loop, broker, call,
                 starts, launched, connects, opens, sess,
                 rest>>

\* line 56: close() raises; nothing in stop() catches it, line 57 is skipped
StopCloseRaises ==
  /\ hostPc = "closing"
  /\ hostPc' = "idle"
  /\ last' = "stop_raised"
  /\ UNCHANGED <<svc, loop, broker, call, starts, counts, sess,
                 rest>>

\* ---- ServiceBusReceiverService._receive_messages ------------------------
\* line 66 as a plausible slip: the loop retries without consulting the flag
EnterLoopMut ==
  /\ opens < MaxOpens
  /\ opens' = opens + 1
  /\ lpc' = "open"
  /\ cause' = "none"
  /\ cur' = None
  /\ delivered' = <<>>
  /\ invoked' = <<>>
  /\ returned' = <<>>
  /\ ackCalls' = <<>>
  /\ failedMsg' = None
  /\ sessStopped' = ~running
  /\ viaBackoff' = (lpc = "sleep")
  /\ UNCHANGED <<cancelReq, exitKind>>

\* lines 66-72: the while test; if the flag is set a receiver is requested
\* and entered, otherwise the task runs to its end (line 90)
EnterLoop ==
  IF running
    THEN /\ opens < MaxOpens
         /\ opens' = opens + 1
         /\ lpc' = "open"
         /\ cause' = "none"
         /\ cur' = None
         /\ delivered' = <<>>
         /\ invoked' = <<>>
         /\ returned' = <<>>
         /\ ackCalls' = <<>>
         /\ failedMsg' = None
         /\ sessStopped' = FALSE
         /\ viaBackoff' = (lpc = "sleep")
         /\ UNCHANGED <<cancelReq, exitKind>>
    ELSE /\ lpc' = "done"
         /\ exitKind' = "returned"
         /\ UNCHANGED <<cancelReq, cause, cur, opens, sess>>

\* lines 63-66: the first step of the task created by start()
LoopBegin ==
  /\ lpc = "ready"
  /\ EnterLoop
  /\ UNCHANGED <<svc, broker, host, clientOpen, launched, connects,
                 rest>>

\* lines 69-72: the receiver is entered, iteration starts
LoopOpened ==
  /\ lpc = "open"
  /\ ~cancelReq
  /\ lpc' = "next"
  /\ viaBackoff' = FALSE
  /\ UNCHANGED <<svc, cancelReq, exitKind, cause, cur, broker, host, counts, delivered,
                 invoked, returned, ackCalls, failedMsg, sessStopped,
                 rest>>

\* lines 69-72, 81-83: opening the session raises; log and back off
LoopOpenFails ==
  /\ lpc = "open"
  /\ ~cancelReq
  /\ lpc' = "sleep"
  /\ cause' = "open"
  /\ viaBackoff' = FALSE
  /\ UNCHANGED <<svc, cancelReq, exitKind, cur, broker, host, counts, delivered,
                 invoked, returned, ackCalls, failedMsg, sessStopped,
                 rest>>

\* lines 75-76 as a plausible slip: the flag is not consulted per message
StillRunningMut == TRUE
\* line 75: if not self._running: break
StillRunning == running

\* lines 74-78: the session yields the oldest pending message; the flag is
\* consulted; the handler is invoked, or the loop breaks
LoopYields ==
  /\ lpc = "next"
  /\ ~cancelReq
  /\ queue # <<>>
  /\ delivered' = Append(delivered, Head(queue))
  /\ IF StillRunning
       THEN /\ lpc' = "handler"
            /\ cur' = Head(queue)
            /\ invoked' = Append(invoked, Head(queue))
            /\ cause' = cause
       ELSE /\ lpc' = "aexit"
            /\ cause' = "break"
            /\ UNCHANGED <<cur, invoked>>
  /\ UNCHANGED <<svc, cancelReq, exitKind, broker, host, counts,
                 returned, ackCalls, failedMsg, sessStopped, viaBackoff,
                 rest>>

\* line 74: no message within max_wait_time, the iteration ends
LoopIterEnds ==
  /\ lpc = "next"
  /\ ~cancelReq
  /\ lpc' = "aexit"
  /\ cause' = "end"
  /\ UNCHANGED <<svc, cancelReq, exitKind, cur, broker, host, counts, sess,
                 rest>>

\* line 74: the iteration raises
LoopIterFails ==
  /\ lpc = "next"
  /\ ~cancelReq
  /\ lpc' = "aexit"
  /\ cause' = "iter"
  /\ UNCHANGED <<svc, cancelReq, exitKind, cur, broker, host, counts, sess,
                 rest>>

\* line 79 as a plausible slip: complete_message is called but not awaited,
\* and the next message is taken while the acknowledgment is under way
LoopHandlerReturnsNoAwait ==
  /\ lpc = "handler"
  /\ ~cancelReq
  /\ returned' = Append(returned, cur)
  /\ ackCalls' = Append(ackCalls, cur)
  /\ lpc' = "next"
  /\ UNCHANGED <<svc, cancelReq, exitKind, cause, cur, broker, host, counts,
                 delivered, invoked, failedMsg, sessStopped, viaBackoff,
                 rest>>

\* lines 78-79 as a plausible slip: the next message is awaited without
\* completing this one
LoopHandlerReturnsMut ==
  /\ lpc = "handler"
  /\ ~cancelReq
  /\ returned' = Append(returned, cur)
  /\ lpc' = "next"
  /\ UNCHANGED <<svc, cancelReq, exitKind, cause, cur, broker, host, counts,
                 delivered, invoked, ackCalls, failedMsg, sessStopped, viaBackoff,
                 rest>>

\* lines 78-79, 100-104: _process_message returns, complete_message is called
LoopHandlerReturns ==
  /\ lpc = "handler"
  /\ ~cancelReq
  /\ returned' = Append(returned, cur)
  /\ ackCalls' = Append(ackCalls, cur)
  /\ lpc' = "ack"
  /\ UNCHANGED <<svc, cancelReq, exitKind, cause, cur, broker, host, counts,
                 delivered, invoked, failedMsg, sessStopped, viaBackoff,
                 rest>>

\* lines 106-108 as a plausible slip: the handler's error is logged and
\* swallowed, so line 79 completes the message
LoopHandlerRaisesMut ==
  /\ lpc = "handler"
  /\ ~cancelReq
  /\ failedMsg' = cur
  /\ ackCalls' = Append(ackCalls, cur)
  /\ lpc' = "ack"
  /\ UNCHANGED <<svc, cancelReq, exitKind, cause, cur, broker, host, counts,
                 delivered, invoked, returned, sessStopped, viaBackoff,
                 rest>>

\* lines 78, 106-108: _process_message raises; the error leaves the session
LoopHandlerRaises ==
  /\ lpc = "handler"
  /\ ~cancelReq
  /\ failedMsg' = cur
  /\ lpc' = "aexit"
  /\ cause' = "handler"
  /\ UNCHANGED <<svc, cancelReq, exitKind, cur, broker, host, counts,
                 delivered, invoked, returned, ackCalls, sessStopped, viaBackoff,
                 rest>>

\* line 79: complete_message returns; the broker removes the message
LoopAckDone ==
  /\ lpc = "ack"
  /\ ~cancelReq
  /\ queue' = SelectSeq(queue, LAMBDA m : m # cur)
  /\ lpc' = "next"
  /\ UNCHANGED <<svc, cancelReq, exitKind, cause, cur, nextId, host, counts, sess,
                 rest>>

\* line 79: complete_message raises; the message stays on the queue
LoopAckFails ==
  /\ lpc = "ack"
  /\ ~cancelReq
  /\ lpc' = "aexit"
  /\ cause' = "ack"
  /\ UNCHANGED <<svc, cancelReq, exitKind, cur, broker, host, counts, sess,
                 rest>>

\* lines 69-72, 66: the session is left without an error (end of iteration
\* or break) and the while test is made again
LoopSessionExits ==
  /\ lpc = "aexit"
  /\ ~cancelReq
  /\ cause \in {"end", "break"}
  /\ EnterLoop
  /\ UNCHANGED <<svc, broker, host, clientOpen, launched, connects,
                 rest>>

\* lines 81-83: the session is left by an error; log and back off
LoopSessionFails ==
  /\ lpc = "aexit"
  /\ ~cancelReq
  /\ cause \in {"iter", "handler", "ack"}
  /\ lpc' = "sleep"
  /\ UNCHANGED <<svc, cancelReq, exitKind, cause, cur, broker, host, counts, sess,
                 rest>>

\* lines 81-83 as a plausible slip: the task gives up after a failure
\* instead of making the while test again
LoopSleepReturnsMut ==
  /\ lpc = "sleep"
  /\ ~cancelReq
  /\ lpc' = "done"
  /\ exitKind' = "gave_up"
  /\ UNCHANGED <<cancelReq, cause, cur, opens, sess>>
  /\ UNCHANGED <<svc, broker, host, clientOpen, launched, connects,
                 rest>>

\* lines 83, 66: the backoff sleep returns and the while test is made again
LoopSleepReturns ==
  /\ lpc = "sleep"
  /\ ~cancelReq
  /\ EnterLoop
  /\ UNCHANGED <<svc, broker, host, clientOpen, launched, connects,
                 rest>>

\* A cancellation requested on a suspended task is raised in it at its next
\* step, whatever the await it is suspended at has produced: while cancelReq
\* is set the task takes no other step than LoopCancelled.

\* line 85 as a plausible slip: CancelledError is not caught
CatchesCancelledMut == FALSE

\* line 85: except asyncio.CancelledError
CatchesCancelled == TRUE

\* lines 85-86, 90: a requested cancellation is raised at the await the task
\* is suspended at; it is caught and the task ends normally
LoopCancelled ==
  /\ lpc \in Awaits
  /\ cancelReq
  /\ lpc' = "done"
  /\ exitKind' = IF CatchesCancelled THEN "cancel_caught" ELSE "cancelled"
  /\ UNCHANGED <<svc, cancelReq, cause, cur, broker, host, counts, sess,
                 rest>>

\* the Stopped state of the consumer
Stopped == ~running /\ client = None /\ lpc \in {"none", "done"}

Loop ==
  \/ LoopBegin
  \/ LoopOpened
  \/ LoopOpenFails
  \/ LoopYields
  \/ LoopIterEnds
  \/ LoopIterFails
  \/ LoopHandlerReturns
  \/ LoopHandlerRaises
  \/ LoopAckDone
  \/ LoopAckFails
  \/ LoopSessionExits
  \/ LoopSessionFails
  \/ LoopSleepReturns
  \/ LoopCancelled

Start == StartNoop \/ StartRaises \/ StartOK

Stop ==
  \/ StopBegin
  \/ StopWaitReturns
  \/ StopTimeout
  \/ StopJoined
  \/ StopNoClient
  \/ StopCloseCalled
  \/ StopCloseDone
  \/ StopCloseRaises

\* start() and stop() called by a host other than the application lifespan
HostStartNoop == StartNoop /\ UNCHANGED life
HostStartRaises == StartRaises /\ UNCHANGED life
HostStartOK == StartOK /\ UNCHANGED life
HostStopBegin == StopBegin /\ UNCHANGED life

\* stop() from its first await on
StopStep ==
  \/ StopWaitReturns
  \/ StopTimeout
  \/ StopJoined
  \/ StopNoClient
  \/ StopCloseCalled
  \/ StopCloseDone
  \/ StopCloseRaises

Next ==
  \/ Enqueue
  \/ HostStartNoop
  \/ HostStartRaises
  \/ HostStartOK
  \/ HostStopBegin
  \/ StopStep
  \/ Loop

Spec == Init /\ [][Next]_vars

\* ---- lifespan (src/app/main.py) -----------------------------------------
\* The application lifespan is the host of the module-level consumer: it
\* calls start() before serving and stop() at shutdown.  The consumer object
\* outlives a lifespan, so a lifespan may be entered again after one ended.
LifespanEnter ==
  /\ phase \in {"off", "complete", "boot_failed"}
  /\ hostPc = "idle"
  /\ phase' = "boot"
  /\ lsStarts' = 0
  /\ lsStops' = 0
  /\ lsLogged' = {}
  /\ UNCHANGED <<svc, loop, broker, host, counts, sess, other>>

\* lines 34-36, 41: start() returns (also when it was a no-op); the
\* application serves
LifespanBootOK ==
  /\ phase = "boot"
  /\ StartOK
  /\ lsStarts' = lsStarts + 1
  /\ phase' = "serving"
  /\ UNCHANGED <<lsStops, lsLogged>>

LifespanBootNoop ==
  /\ phase = "boot"
  /\ StartNoop
  /\ lsStarts' = lsStarts + 1
  /\ phase' = "serving"
  /\ UNCHANGED <<lsStops, lsLogged>>

\* lines 37-39 as a plausible slip: the error is logged and not re-raised
LifespanBootFailsMut ==
  /\ phase = "boot"
  /\ StartRaises
  /\ lsStarts' = lsStarts + 1
  /\ lsLogged' = lsLogged \cup {"start"}
  /\ phase' = "serving"
  /\ UNCHANGED lsStops

\* lines 34-39: start() raises; the error is logged and re-raised, the
\* lifespan ends before the yield
LifespanBootFails ==
  /\ phase = "boot"
  /\ StartRaises
  /\ lsStarts' = lsStarts + 1
  /\ lsLogged' = lsLogged \cup {"start"}
  /\ phase' = "boot_failed"
  /\ UNCHANGED lsStops

\* lines 41-45: the application shuts down; stop() is called
LifespanShutdown ==
  /\ phase = "serving"
  /\ StopBegin
  /\ lsStops' = lsStops + 1
  /\ phase' = "stopping"
  /\ UNCHANGED <<lsStarts, lsLogged>>

\* lines 45-46, 50: stop() returns; shutdown completes
LifespanStopReturned ==
  /\ phase = "stopping"
  /\ hostPc = "idle"
  /\ last = "stop_ok"
  /\ phase' = "complete"
  /\ UNCHANGED <<svc, loop, broker, host, counts, sess, lsStarts, lsStops,
                 lsLogged, other>>

\* lines 47-48 as a plausible slip: the error of stop() leaves the lifespan
LifespanStopRaisedMut ==
  /\ phase = "stopping"
  /\ hostPc = "idle"
  /\ last = "stop_raised"
  /\ phase' = "shutdown_failed"
  /\ UNCHANGED <<svc, loop, broker, host, counts, sess, lsStarts, lsStops,
                 lsLogged, other>>

\* lines 47-50: stop() raises; the error is logged, shutdown completes
LifespanStopRaised ==
  /\ phase = "stopping"
  /\ hostPc = "idle"
  /\ last = "stop_raised"
  /\ lsLogged' = lsLogged \cup {"stop"}
  /\ phase' = "complete"
  /\ UNCHANGED <<svc, loop, broker, host, counts, sess, lsStarts, lsStops,
                 other>>

NextLifespan ==
  \/ Enqueue
  \/ LifespanEnter
  \/ LifespanBootOK
  \/ LifespanBootNoop
  \/ LifespanBootFails
  \/ LifespanShutdown
  \/ LifespanStopReturned
  \/ LifespanStopRaised
  \/ StopStep
  \/ Loop

SpecLifespan == Init /\ [][NextLifespan]_vars

\* ---- health endpoint (src/app/api/v1/health.py) --------------------------
\* src/app/config.py lines 31-32: the configured name and version
app_name == "azure-cloud-booking-service"
app_version == "0.1.0"

\* datetime.now(UTC): the readings of the clock
Times == 1..MaxTime

\* the condition of the consumer, as an observer of its fields names it
Condition ==
  IF Stopped THEN "Stopped"
  ELSE IF hostPc = "idle" /\ last = "stop_raised" THEN "StopFailed"
  ELSE IF running /\ lpc = "done" THEN "LoopDead"
  ELSE IF running /\ client # None /\ hostPc = "idle" THEN "Running"
  ELSE "other"

\* lines 51-56 as a plausible slip: the status follows the consumer's flag
HealthCheckMut ==
  /\ \E t \in Times :
       resp' = [status |-> IF running THEN "healthy" ELSE "unhealthy",
                service |-> app_name,
                version |-> app_version, timestamp |-> t]
  /\ respIn' = Condition
  /\ UNCHANGED <<svc, loop, broker, host, counts, sess, life, db, scope>>

\* lines 43-56: GET /health builds the response from the settings and the
\* clock; it reads nothing of the consumer
HealthCheck ==
  /\ \E t \in Times :
       resp' = [status |-> "healthy", service |-> app_name,
                version |-> app_version, timestamp |-> t]
  /\ respIn' = Condition
  /\ UNCHANGED <<svc, loop, broker, host, counts, sess, life, db, scope>>

NextHealth ==
  \/ Enqueue
  \/ HostStartNoop
  \/ HostStartRaises
  \/ HostStartOK
  \/ HostStopBegin
  \/ StopStep
  \/ Loop
  \/ HealthCheck

SpecHealth == Init /\ [][NextHealth]_vars

\* ---- the fatal exit of the loop task -------------------------------------
\* Every error of the session is caught at line 81, so line 87 is reached
\* only by an error raised in that handler itself, at the backoff sleep of
\* line 83.  asyncio.sleep raises nothing but CancelledError; SpecFaults lets
\* the sleep fail, to cover lines 87-90.

\* lines 87-88 as a plausible slip: the fatal exit also clears the flag
LoopFatalMut ==
  /\ lpc = "sleep"
  /\ ~cancelReq
  /\ lpc' = "done"
  /\ exitKind' = "fatal_logged"
  /\ running' = FALSE
  /\ UNCHANGED <<client, receiver, task, cancelReq, cause, cur, broker, host,
                 counts, sess, rest>>

\* lines 83, 87-90: an error escapes the while loop; it is logged as fatal
\* and the task ends normally
LoopFatal ==
  /\ lpc = "sleep"
  /\ ~cancelReq
  /\ lpc' = "done"
  /\ exitKind' = "fatal_logged"
  /\ UNCHANGED <<svc, cancelReq, cause, cur, broker, host, counts, sess,
                 rest>>

NextFaults ==
  \/ Enqueue
  \/ HostStartNoop
  \/ HostStartRaises
  \/ HostStartOK
  \/ HostStopBegin
  \/ StopStep
  \/ Loop
  \/ LoopFatal

SpecFaults == Init /\ [][NextFaults]_vars

\* ---- relational model (src/models) ---------------------------------------
\* Primary keys are fresh uuid4 values: a new row takes an id not in use.
UserIds == 1..MaxUsers
PetIds == 1..MaxPets
BookingIds == 1..MaxBookings

PetIdsOf(u) == {p.pet_id : p \in {q \in pets : q.user_id = u}}
OtherPartsOfState == <<svc, loop, broker, host, counts, sess, life, web, scope>>

\* user.py 20: a user row is inserted
CreateUser ==
  \E u \in UserIds \ users :
    /\ users' = users \cup {u}
    /\ dbLast' = [op |-> "create_user", id |-> u, result |-> "ok"]
    /\ UNCHANGED <<pets, bookings, OtherPartsOfState>>

\* pet.py 21-24: a pet row is inserted; users.user_id must exist
CreatePetOK ==
  \E p \in PetIds \ {q.pet_id : q \in pets}, u \in users :
    /\ pets' = pets \cup {[pet_id |-> p, user_id |-> u]}
    /\ dbLast' = [op |-> "create_pet", id |-> p, result |-> "ok"]
    /\ UNCHANGED <<users, bookings, OtherPartsOfState>>

\* pet.py 22-24: the foreign key rejects a pet of a user that does not exist
CreatePetRejected ==
  \E p \in PetIds \ {q.pet_id : q \in pets}, u \in UserIds \ users :
    /\ dbLast' = [op |-> "create_pet", id |-> p, result |-> "integrity_error"]
    /\ UNCHANGED <<users, pets, bookings, OtherPartsOfState>>

\* booking.py 34, 38-39: a booking row is inserted; user and pet must exist
\* (the pet need not be a pet of the booking's user)
CreateBookingOK ==
  \E b \in BookingIds \ {q.booking_id : q \in bookings},
     u \in users, p \in {q.pet_id : q \in pets} :
    /\ bookings' = bookings \cup {[booking_id |-> b, user_id |-> u, pet_id |-> p]}
    /\ dbLast' = [op |-> "create_booking", id |-> b, result |-> "ok"]
    /\ UNCHANGED <<users, pets, OtherPartsOfState>>

\* booking.py 38-39: the foreign keys reject a booking of a missing user or pet
CreateBookingRejected ==
  \E b \in BookingIds \ {q.booking_id : q \in bookings},
     u \in UserIds, p \in PetIds :
    /\ u \notin users \/ p \notin {q.pet_id : q \in pets}
    /\ dbLast' = [op |-> "create_booking", id |-> b, result |-> "integrity_error"]
    /\ UNCHANGED <<users, pets, bookings, OtherPartsOfState>>

\* pet.py 34, booking.py 39: Pet.bookings has no delete cascade and pet_id is
\* NOT NULL with ON DELETE NO ACTION, so a pet cannot go while a booking that
\* stays refers to it.  These are the bookings that block the delete of u:
\* bookings of another user for a pet of u.
Blocking(u) == {b \in bookings : b.user_id # u /\ b.pet_id \in PetIdsOf(u)}

\* user.py 28-33: deleting a user deletes the user's pets and bookings
DeleteUserOK ==
  \E u \in users :
    /\ Blocking(u) = {}
    /\ users' = users \ {u}
    /\ pets' = {p \in pets : p.user_id # u}
    /\ bookings' = {b \in bookings : b.user_id # u}
    /\ dbLast' = [op |-> "delete_user", id |-> u, result |-> "ok"]
    /\ UNCHANGED OtherPartsOfState

\* pet.py 34, booking.py 39, database.py 133-135: the delete of a user whose
\* pet is booked by another user raises IntegrityError and is rolled back
DeleteUserRejected ==
  \E u \in users :
    /\ Blocking(u) # {}
    /\ dbLast' = [op |-> "delete_user", id |-> u, result |-> "integrity_error"]
    /\ UNCHANGED <<users, pets, bookings, OtherPartsOfState>>

NextDb ==
  \/ CreateUser
  \/ CreatePetOK
  \/ CreatePetRejected
  \/ CreateBookingOK
  \/ CreateBookingRejected
  \/ DeleteUserOK
  \/ DeleteUserRejected

SpecDb == Init /\ [][NextDb]_vars

\* every booking refers to one existing user and one existing pet, every pet
\* to an existing user
ReferencesExist ==
  /\ \A b \in bookings : b.user_id \in users /\ b.pet_id \in {p.pet_id : p \in pets}
  /\ \A p \in pets : p.user_id \in users
  /\ \A b1, b2 \in bookings : b1.booking_id = b2.booking_id => b1 = b2
  /\ \A p1, p2 \in pets : p1.pet_id = p2.pet_id => p1 = p2

\* ---- DatabaseManager.session_scope (src/service/database.py) -------------
\* The context manager and the body of the with block run in one thread, one
\* call after the other.  scopeLog lists the calls made on the session.
OutsideScope == <<svc, loop, broker, host, counts, sess, life, web, db>>

\* the calls session_scope itself made (the body may commit too)
ScopeCalls == SelectSeq(scopeLog, LAMBDA c : c # "body_commit")

\* lines 129-131: a session is made and yielded to the body
ScopeEnter ==
  /\ scopePc = "idle"
  /\ scopePc' = "body"
  /\ scopeLog' = <<>>
  /\ scopeExc' = "none"
  /\ scopeOut' = "none"
  /\ UNCHANGED <<dirty, durable, OutsideScope>>

\* src/main.py 125-128: the body adds or deletes rows
ScopeBodyWrites ==
  /\ scopePc = "body"
  /\ durable + dirty < MaxWrites
  /\ dirty' = dirty + 1
  /\ UNCHANGED <<scopePc, scopeLog, scopeExc, scopeOut, durable, OutsideScope>>

\* src/main.py 143: the body commits the session itself
ScopeBodyCommits ==
  /\ scopePc = "body"
  /\ Len(SelectSeq(scopeLog, LAMBDA c : c = "body_commit")) < MaxBodyCommits
  /\ scopeLog' = Append(scopeLog, "body_commit")
  /\ durable' = durable + dirty
  /\ dirty' = 0
  /\ UNCHANGED <<scopePc, scopeExc, scopeOut, OutsideScope>>

\* lines 131, 133: the body raises
ScopeBodyRaises ==
  /\ scopePc = "body"
  /\ scopeExc' = "body_error"
  /\ scopePc' = "except"
  /\ UNCHANGED <<scopeLog, scopeOut, dirty, durable, OutsideScope>>

\* lines 131-132: the body ends, session.commit() is called and returns
ScopeCommitOK ==
  /\ scopePc = "body"
  /\ scopeLog' = Append(scopeLog, "commit")
  /\ durable' = durable + dirty
  /\ dirty' = 0
  /\ scopePc' = "finally"
  /\ UNCHANGED <<scopeExc, scopeOut, OutsideScope>>

\* lines 132-133: session.commit() raises
ScopeCommitRaises ==
  /\ scopePc = "body"
  /\ scopeLog' = Append(scopeLog, "commit")
  /\ scopeExc' = "commit_error"
  /\ scopePc' = "except"
  /\ UNCHANGED <<scopeOut, dirty, durable, OutsideScope>>

\* lines 133-135 as a plausible slip: the exception is not raised again
ScopeRollbackMut ==
  /\ scopePc = "except"
  /\ scopeLog' = Append(scopeLog, "rollback")
  /\ dirty' = 0
  /\ scopeExc' = "none"
  /\ scopePc' = "finally"
  /\ UNCHANGED <<scopeOut, durable, OutsideScope>>

\* lines 133-135: session.rollback(), then the exception is raised again
ScopeRollback ==
  /\ scopePc = "except"
  /\ scopeLog' = Append(scopeLog, "rollback")
  /\ dirty' = 0
  /\ scopePc' = "finally"
  /\ UNCHANGED <<scopeExc, scopeOut, durable, OutsideScope>>

\* lines 136-137: session.close(); the with block ends, by a return or by
\* the exception in flight
ScopeClose ==
  /\ scopePc = "finally"
  /\ scopeLog' = Append(scopeLog, "close")
  /\ scopeOut' = IF scopeExc = "none" THEN "returned" ELSE scopeExc
  /\ scopePc' = "idle"
  /\ UNCHANGED <<scopeExc, dirty, durable, OutsideScope>>

NextScope ==
  \/ ScopeEnter
  \/ ScopeBodyWrites
  \/ ScopeBodyCommits
  \/ ScopeBodyRaises
  \/ ScopeCommitOK
  \/ ScopeCommitRaises
  \/ ScopeRollback
  \/ ScopeClose

SpecScope == Init /\ [][NextScope]_vars

\* The event loop runs every task that is ready and every timer that is due:
\* a stop() in progress takes its next step, and the loop task takes its
\* first step, re-tests the flag after a session or a sleep, and receives a
\* requested cancellation.
SpecFair ==
  /\ Spec
  /\ WF_vars(StopStep)
  /\ WF_vars(LoopBegin)
  /\ WF_vars(LoopCancelled)

\* every stop() call ends (by returning or by raising)
StopTerminates == (hostPc # "idle") ~> (hostPc = "idle")

\* a stop() call that returns leaves the consumer Stopped
StopReturnsStopped == (hostPc = "idle" /\ last = "stop_ok") => Stopped

TypeOK ==
  /\ running \in BOOLEAN
  /\ client \in 0..MaxStarts
  /\ task \in 0..MaxStarts
  /\ lpc \in LoopPcs
  /\ hostPc \in {"idle", "wait_for", "join", "close", "closing"}
  /\ opens \in 0..MaxOpens

\* ---- helpers of the properties ------------------------------------------
\* the messages of the session passed to the handler whose acknowledgment has
\* not completed (a completed message is gone from the queue)
InFlight == {m \in {invoked[i] : i \in 1..Len(invoked)} :
               m \in {queue[i] : i \in 1..Len(queue)}}
Range(s) == {s[i] : i \in 1..Len(s)}
IsPrefix(s, t) == Len(s) <= Len(t) /\ SubSeq(t, 1, Len(s)) = s
NoDup(s) == \A i, j \in 1..Len(s) : i # j => s[i] # s[j]
StopEnded == hostPc = "idle" /\ last \in {"stop_ok", "stop_raised", "stop_cancelled"}
StartCalled == starts' = starts + 1

\* start() never replaces a task that is still pending: one loop task at a time
OneLoopTask == [][task' # task => lpc \in {"none", "done"}]_vars

\* C1: in a receive session during which running stayed true and no handler
\* failed, the messages passed to the handler are exactly the messages
\* delivered, in delivery order; complete_message is called once per message
\* and only for a message whose handler has returned; outside the handler
\* every delivered message has been handled and acknowledged.
C1_HandledAndAckedInOrder ==
  (~sessStopped /\ failedMsg = None) =>
    /\ invoked = delivered
    /\ ackCalls = returned
    /\ NoDup(ackCalls)
    /\ IF lpc = "handler"
         THEN invoked = Append(returned, cur)
         ELSE returned = invoked

C1_Witness ==
  /\ lpc = "aexit"
  /\ cause = "end"
  /\ ~sessStopped
  /\ failedMsg = None
  /\ delivered = <<1, 2>>
  /\ ackCalls = <<1, 2>>

\* C2: once the handler has raised for message k in a session, k is not
\* passed to complete_message in that session, the loop leaves the session
\* into the backoff sleep, the next session is opened only out of that sleep,
\* and the task ends only if running is false or it was cancelled.
C2_HandlerFailureBacksOff ==
  [][/\ (failedMsg # None /\ opens' # opens) => lpc = "sleep"
     /\ failedMsg' # None =>
       /\ failedMsg' \notin Range(ackCalls')
       /\ lpc' \in {"aexit", "sleep", "done"}
       /\ lpc' \in {"aexit", "sleep"} => cause' = "handler"
       /\ (lpc # "sleep" /\ lpc' = "done") => (lpc' = lpc \/ cancelReq)
       /\ (lpc = "sleep" /\ lpc' = "done") => (~running \/ cancelReq)]_vars

C2_Witness ==
  /\ failedMsg = 1
  /\ lpc = "sleep"
  /\ cause = "handler"
  /\ running
  /\ delivered = <<1>>

\* C3: when the grace period of stop() elapses with the loop task pending,
\* the task is cancelled; no cancellation surfaces from stop(); and when
\* stop() returns the task has ended and the client handle is null.
C3_ForcedStop ==
  /\ (timedOut /\ (last = "stopping" \/ StopEnded)) => (forced /\ cancelReq)
  /\ (timedOut /\ StopEnded) => last # "stop_cancelled"
  /\ (timedOut /\ hostPc = "idle" /\ last = "stop_ok") =>
       (client = None /\ lpc = "done")

C3_Witness ==
  /\ timedOut
  /\ hostPc = "idle"
  /\ last = "stop_ok"
  /\ exitKind = "cancel_caught"
  /\ closeCalls = 1

\* C4: when stop() is called on a consumer holding a client and returns
\* without the grace period having elapsed (the loop left on its own or had
\* already ended), the task was not cancelled by it, close() was called
\* exactly once, running is false and the client handle is null.
C4_CooperativeStop ==
  (hostPc = "idle" /\ last = "stop_ok" /\ ~timedOut /\ entryClient # None) =>
    /\ ~forced
    /\ closeCalls = 1
    /\ ~running
    /\ client = None
    /\ lpc \in {"none", "done"}

C4_Witness ==
  /\ hostPc = "idle"
  /\ last = "stop_ok"
  /\ ~timedOut
  /\ entryClient # None
  /\ exitKind = "returned"
  /\ opens > 0

\* C5: a stop() in which client.close() was called ends without raising,
\* with running false and the client handle null.
C5_CloseFailureIsSwallowed ==
  (StopEnded /\ closeCalls > 0) =>
    (last = "stop_ok" /\ ~running /\ client = None)

\* C6: a start() call made while running is true changes neither running,
\* the task handle, the client handle nor the loop task, opens no connection
\* and launches no task.
C6_StartWhileRunningIsNoop ==
  [][(running /\ StartCalled) =>
       /\ last' = "start_noop"
       /\ UNCHANGED <<running, task, client, receiver, loop, launched,
                      connects, clientOpen>>]_vars

C6_Witness ==
  /\ last = "start_noop"
  /\ running
  /\ task # None
  /\ lpc \in Awaits

\* C7: a start() that returns normally from the Stopped state leaves running
\* true, the client handle set to an open client, and exactly one new task,
\* not yet run, recorded as the task handle.
C7_StartFromStopped ==
  [][(Stopped /\ StartCalled /\ last' = "start_ok") =>
       /\ running'
       /\ client' # None
       /\ client' \in clientOpen'
       /\ launched' = launched + 1
       /\ task' = launched'
       /\ task' # task
       /\ lpc' = "ready"]_vars

C7_Witness ==
  /\ last = "start_ok"
  /\ starts = 1
  /\ launched = 1
  /\ task = 1
  /\ lpc = "ready"

\* C8: a start() that follows a completed stop() of a consumer that had been
\* started is not a no-op, and if it returns normally the consumer is in the
\* state the first start() produced: running true, a client never used
\* before, a task never used before that has not run yet, with no
\* cancellation request, no session and no message carried over.
C8_Restart ==
  [][(StopEnded /\ launched > 0 /\ StartCalled) =>
       /\ last' # "start_noop"
       /\ last' = "start_ok" =>
            /\ running'
            /\ client' \notin 0..connects
            /\ client' \in clientOpen'
            /\ task' \notin 0..launched
            /\ lpc' = "ready"
            /\ ~cancelReq'
            /\ exitKind' = "none"
            /\ cur' = None
            /\ delivered' = <<>>]_vars

C8_Witness ==
  /\ last = "start_ok"
  /\ launched = 2
  /\ task = 2
  /\ client = 2
  /\ running
  /\ lpc = "ready"

\* C9: every stop() call that has ended has returned (not raised) and left
\* the consumer Stopped: running false, loop task ended, client handle null.
C9_StopLeavesStopped ==
  StopEnded => (last = "stop_ok" /\ Stopped)

\* C10: when running is false during the backoff sleep that follows a failed
\* session open, no further session is opened and the loop task leaves that
\* sleep only to end.
C10_NoRetryAfterStopInBackoff ==
  [][(lpc = "sleep" /\ cause = "open" /\ ~running) =>
       /\ opens' = opens
       /\ lpc' \in {"sleep", "done"}]_vars

C10_Witness ==
  /\ lpc = "done"
  /\ exitKind = "returned"
  /\ cause = "open"
  /\ opens = 1

\* C11: when the start() called by a booting lifespan raises, the lifespan
\* logs the error and ends as a failed boot; from a failed boot the
\* application does not come to serve (only a new lifespan can boot again).
C11_BootFailureIsFatal ==
  [][/\ (phase = "boot" /\ StartCalled /\ last' = "start_raised") =>
          (phase' = "boot_failed" /\ "start" \in lsLogged')
     /\ phase = "boot_failed" => phase' \in {"boot_failed", "boot"}]_vars

C11_Witness ==
  /\ phase = "boot_failed"
  /\ last = "start_raised"
  /\ "start" \in lsLogged
  /\ lsStarts = 1

\* C12: a lifespan that serves has called start() once and stop() not yet;
\* from shutdown on it has called stop() once; when stop() has raised the
\* error is logged and the lifespan still completes its shutdown.
C12_LifespanCallsOnce ==
  [][/\ phase' = "serving" => (lsStarts' = 1 /\ lsStops' = 0)
     /\ phase' = "stopping" => (lsStarts' = 1 /\ lsStops' = 1)
     /\ phase' = "complete" =>
          /\ lsStarts' = 1
          /\ lsStops' = 1
          /\ last' \in {"stop_ok", "stop_raised"}
          /\ last' = "stop_raised" => "stop" \in lsLogged'
     /\ phase = "stopping" => phase' \in {"stopping", "complete"}]_vars

C12_Witness ==
  /\ phase = "complete"
  /\ last = "stop_raised"
  /\ "stop" \in lsLogged
  /\ lsStarts = 1
  /\ lsStops = 1

\* C13: a stop() called on a Stopped consumer goes straight to the test of
\* the client handle, calls no close(), returns without error and leaves the
\* consumer Stopped.
C13_StopWhenStopped ==
  [][/\ (Stopped /\ hostPc = "idle" /\ hostPc' # "idle") =>
          (hostPc' = "close" /\ closeCalls' = 0 /\ Stopped')
     /\ (Stopped /\ hostPc = "close") =>
          /\ Stopped'
          /\ closeCalls' = 0
          /\ hostPc' = "close" \/ (hostPc' = "idle" /\ last' = "stop_ok")]_vars

\* a second stop() after a complete start()/stop() has returned
C13_Witness ==
  /\ StopEnded
  /\ last = "stop_ok"
  /\ entryClient = None
  /\ closeCalls = 0
  /\ launched > 0
  /\ connects = 1
  /\ Stopped

\* C14: before any start() or stop() the consumer is as constructed:
\* running false, no task, no client, no receiver, no loop.
C14_StoppedAfterConstruction ==
  last = "init" => (Stopped /\ task = None /\ receiver = None /\ lpc = "none")

C14_Witness ==
  /\ last = "init"
  /\ starts = 0
  /\ hostPc = "idle"
  /\ Len(queue) > 0

\* C15: whatever the condition of the consumer, GET /health can be served
\* and every response carries status "healthy", the configured service name
\* and version, and a reading of the clock.
C15_HealthIgnoresConsumer ==
  /\ ENABLED HealthCheck
  /\ resp # NoResponse =>
       /\ resp.status = "healthy"
       /\ resp.service = app_name
       /\ resp.version = app_version
       /\ resp.timestamp \in Times

\* a response returned while the consumer was left half-stopped by a stop()
\* that raised
C15_Witness ==
  /\ respIn = "StopFailed"
  /\ resp # NoResponse
  /\ resp.status = "healthy"
  /\ ~running
  /\ client # None

\* C16: every delete of a user removes the user with the user's pets and
\* bookings, and every booking that remains refers to one existing user and
\* one existing pet, also when users book each other's pets.
C16_DeleteUserCascades ==
  [][/\ ReferencesExist'
     /\ (dbLast' # dbLast /\ dbLast'.op = "delete_user") =>
          /\ dbLast'.id \notin users'
          /\ \A p \in pets' : p.user_id # dbLast'.id
          /\ \A b \in bookings' : b.user_id # dbLast'.id]_vars

\* C17: start() marks the consumer running only after the client is opened
\* and the task launched: in no reachable state is running true while the
\* client handle is null.
C17_RunningOnlyWithClient ==
  running => client # None

\* C18: a start() whose connection setup raised leaves the consumer Stopped
\* (running false, no client, no pending task), and the next start() on the
\* same consumer attempts the connection again.
C18_FailedStartLeavesStopped ==
  [][/\ (StartCalled /\ last' = "start_raised") => Stopped'
     /\ (last = "start_raised" /\ StartCalled) => connects' = connects + 1]_vars

\* C19 as stated: the task handle is non-null only for a loop that was
\* launched and is not yet joined, and is null again once stop() has ended.
C19_TaskHandleClearedByStop ==
  /\ task # None => launched > 0
  /\ lpc \notin {"none", "done"} => task # None
  /\ StopEnded => task = None

\* C19 amended: the task handle is non-null if and only if a loop task has
\* ever been launched; stop() never clears it, and once stop() has ended the
\* handle refers to a task that has finished.
C19_TaskHandleKept ==
  /\ task # None <=> launched > 0
  /\ lpc \notin {"none", "done"} => task # None
  /\ (StopEnded /\ task # None) => lpc = "done"

C19_Witness ==
  /\ StopEnded
  /\ last = "stop_ok"
  /\ forced
  /\ task # None
  /\ lpc = "done"
  /\ client = None

\* C20: while the loop task has not finished, stop() is not at the close of
\* the client, and the client the task uses is set and still open.
C20_CloseAfterTaskFinished ==
  /\ hostPc \in {"close", "closing"} => lpc \in {"none", "done"}
  /\ lpc \notin {"none", "done"} => (client # None /\ client \in clientOpen)

\* stop() is awaiting close() after it cancelled and joined the task
C20_Witness ==
  /\ hostPc = "closing"
  /\ forced
  /\ lpc = "done"
  /\ client # None
  /\ closeCalls = 1

\* C21: the step a loop task takes once its cancellation is requested, at
\* whichever await it is suspended, ends the task as done and not cancelled:
\* it is not the fatal-error exit, it enters no backoff and opens no session.
C21_CancellationEndsTaskNormally ==
  [][(cancelReq /\ lpc \in Awaits /\ lpc' # lpc) =>
       /\ lpc' = "done"
       /\ exitKind' = "cancel_caught"
       /\ opens' = opens
       /\ UNCHANGED <<svc, broker, sess>>]_vars

\* a task cancelled in its backoff sleep (after a handler failure) has ended
C21_Witness ==
  /\ lpc = "done"
  /\ exitKind = "cancel_caught"
  /\ forced
  /\ failedMsg # None
  /\ cause = "handler"

\* C22: a message the session yields while running is false is not passed to
\* the handler and not acknowledged (it stays on the queue): the inner loop
\* breaks, and the task then ends without opening another session.
C22_NoHandlingAfterStop ==
  [][/\ (lpc = "next" /\ ~running /\ Len(delivered') = Len(delivered) + 1) =>
          /\ lpc' = "aexit"
          /\ cause' = "break"
          /\ invoked' = invoked
          /\ ackCalls' = ackCalls
          /\ queue' = queue
     /\ (lpc = "aexit" /\ cause = "break" /\ lpc' # lpc) =>
          (lpc' = "done" /\ opens' = opens)]_vars

\* the task returned after a break: the last message delivered was not handled
C22_Witness ==
  /\ lpc = "done"
  /\ exitKind = "returned"
  /\ cause = "break"
  /\ ~running
  /\ Len(delivered) = Len(invoked) + 1
  /\ delivered[Len(delivered)] \notin Range(ackCalls)
  /\ delivered[Len(delivered)] \in Range(queue)

\* C23: while running is true, a failure of the session (at its opening, in
\* the iteration, in the handler or in the acknowledgment) takes the task to
\* the backoff sleep, and the sleep is followed by another get_queue_receiver
\* call, however many sessions were opened before; the task ends only when
\* running is false (the while test) or when it is cancelled.
C23_RetriesWhileRunning ==
  [][/\ (lpc = "open" /\ lpc' \notin {"open", "next"} /\ ~cancelReq) =>
          lpc' = "sleep"
     /\ (lpc = "aexit" /\ cause \in {"iter", "handler", "ack"} /\ lpc' # lpc
           /\ ~cancelReq) => lpc' = "sleep"
     /\ (lpc = "sleep" /\ running /\ lpc' # lpc /\ ~cancelReq) =>
          (lpc' = "open" /\ opens' = opens + 1 /\ viaBackoff')
     /\ (lpc # "done" /\ lpc' = "done") => (~running \/ cancelReq)]_vars

\* the task, still running, is opening the last session the bound allows,
\* straight out of a backoff sleep
C23_Witness ==
  /\ running
  /\ viaBackoff
  /\ opens = MaxOpens
  /\ lpc = "open"
  /\ launched = 1

\* C24: no step of the loop task changes running, the task handle, the
\* client handle or the receiver, however the task ends; the task ends
\* normally (returned, cancellation caught, or fatal error logged), never by
\* an error that leaves it; the three fields change only in a step of
\* start() or of stop().
C24_LoopLeavesConsumerFields ==
  [][/\ (lpc \in {"ready"} \cup Awaits /\ lpc' # lpc) =>
          /\ UNCHANGED <<running, task, client, receiver>>
          /\ lpc' = "done" =>
               exitKind' \in {"returned", "cancel_caught", "fatal_logged"}
     /\ (<<running, task, client>>' # <<running, task, client>>) =>
          (StartCalled \/ hostPc # "idle" \/ hostPc' # "idle")]_vars

\* the task has ended by the fatal exit and the consumer still looks Running
C24_Witness ==
  /\ lpc = "done"
  /\ exitKind = "fatal_logged"
  /\ running
  /\ client # None
  /\ task # None
  /\ hostPc = "idle"

\* C25: in a session at most one message is in flight (passed to the handler,
\* acknowledgment not completed): it is the message in the handler or being
\* acknowledged, and when the task waits for the next message none is, so a
\* handler starts only after the previous one returned and its
\* acknowledgment completed.
C25_OneMessageAtATime ==
  /\ Cardinality(InFlight) <= 1
  /\ lpc \in {"handler", "ack"} => InFlight = {cur}
  /\ lpc = "next" => InFlight = {}
  /\ lpc = "handler" => returned = ackCalls /\ Len(invoked) = Len(returned) + 1

\* the second message of a session is in the handler; the first is
\* acknowledged and gone from the queue
C25_Witness ==
  /\ lpc = "handler"
  /\ cur = 2
  /\ invoked = <<1, 2>>
  /\ ackCalls = <<1>>
  /\ queue = <<2>>

\* C26: a with block of session_scope that has ended either returned, and
\* then session_scope called commit once, no rollback, then close once; or
\* raised, and then session_scope called rollback (after the commit, if it
\* is the commit that raised), then close once, and the caller got the
\* exception that was raised; no write is left uncommitted.
C26_SessionScopeIsTransactional ==
  (scopePc = "idle" /\ scopeOut # "none") =>
    /\ dirty = 0
    /\ scopeOut = "returned" => ScopeCalls = <<"commit", "close">>
    /\ scopeOut = "body_error" =>
         (ScopeCalls = <<"rollback", "close">> /\ scopeExc = "body_error")
    /\ scopeOut = "commit_error" =>
         (ScopeCalls = <<"commit", "rollback", "close">> /\ scopeExc = "commit_error")
    /\ scopeOut \in {"returned", "body_error", "commit_error"}

\* the commit of a with block raised after the body had written
C26_Witness ==
  /\ scopePc = "idle"
  /\ scopeOut = "commit_error"
  /\ scopeLog = <<"commit", "rollback", "close">>
  /\ dirty = 0
  /\ durable = 0

====
